---- MODULE Spec2Model ----
(***************************************************************************)
(* remote-sync.js: a chokidar watcher hashes every added/changed file,     *)
(* keeps the last md5 per relative path, collects changed paths in the     *)
(* `updates` object, (re)arms a 5 second timeout on every change and, when *)
(* the timeout fires, opens an ssh2 connection whose "ready" handler opens *)
(* an sftp session and fastPut()s every path of `updates`.                 *)
(*                                                                         *)
(* Node runs every callback to completion on one thread, so each callback  *)
(* is one action.  The action Tick lets time pass, in milliseconds.        *)
(***************************************************************************)
EXTENDS Integers, Sequences, FiniteSets, TLC

\* ---------------------------------------------------------------- bounds
MaxReading  == 1    \* getHash streams open at the same time
MaxClients  == 2    \* ssh2 Client objects created in one run
MaxAttempts == 1    \* value up to which the retry counter is followed
MaxRequests == 1    \* conn.sftp() requests outstanding on one Client
MaxPuts     == 1    \* fastPut()s of one path outstanding at the same time
MaxTimers   == 2    \* slots of the runtime's timer table
MaxHash     == 2    \* distinct file contents (md5 digests)
TicksPerWindow == 2 \* steps of the clock in one debounce window
MaxRetries  == 5    \* value up to which the retry counter is followed in RetrySpec
MaxBurst    == 2    \* getHash streams open at the same time in BurstSpec

\* ------------------------------------------------------------- constants
\* setTimeout(..., 5 /* seconds */ * 1000 /* milliseconds */)
Window == 5 * 1000

\* the time one Tick lets pass, in milliseconds
Quantum == Window \div TicksPerWindow

\* nconf.get("localPath") and nconf.get("sftp:remotePath"), as characters
localPath  == <<"/", "p">>
remotePath == <<"/", "w">>

\* the watched files: one reported with "/" separators, one with "\\"
Paths == { localPath \o <<"/", "a">>, localPath \o <<"\\", "b">> }

\* the file touched when one file is followed in depth
OneFile == localPath \o <<"/", "a">>

Hashes    == 1..MaxHash
ClientIds == 1..MaxClients
TimerIds  == 1..MaxTimers
Events    == {"add", "change", "unlink"}

\* ------------------------------------------------------- pure functions
\* String.prototype.replace(/\\/g, "/")
ReplaceBackslashes(s) == [i \in 1..Len(s) |-> IF s[i] = "\\" THEN "/" ELSE s[i]]

\* getRelativePath(root, fullPath)
getRelativePath(root, fullPath) ==
    ReplaceBackslashes(SubSeq(fullPath, Len(root) + 1, Len(fullPath)))

RelPaths == { getRelativePath(localPath, p) : p \in Paths }

\* the second argument of sftp.fastPut: remotePath + updates[path]
RemoteTarget(rel) == remotePath \o rel

\* the <<local file, remote file>> pairs a fastPut can be given
Transfers == Paths \X { RemoteTarget(r) : r \in RelPaths }

\* ---------------------------------------------------------------- state
VARIABLES
    hashes,         \* hashes[relativePath]: last md5 seen, 0 when undefined
    updates,        \* the object `updates`: <<path, relativePath>> in insertion order
    timeout,        \* the handle kept in `timeout`: a timer id, 0 when undefined
    timers,         \* the runtime's timers: milliseconds left, -1 when not active
    sftp_ready,     \* the flag sftp_ready
    watcher_ready,  \* the flag watcher_ready
    conn,           \* the module-level `conn`: a client id, 0 when undefined
    clients,        \* every Client made by connectToSFTPServer
    reading,        \* getHash streams still reading, per (path, digest, before ready)
    puts,           \* fastPut()s whose callback has not run yet, per <<local, remote>>
    status,         \* "running", "crashed" (uncaught exception) or "exited"
    since,          \* milliseconds since a change of the path was last batched (capped)
    last,           \* what the callback that ran last did, "-" when nothing of note
    written         \* the spinner character it wrote to stdout, "" when none

vars == << hashes, updates, timeout, timers, sftp_ready, watcher_ready, conn,
           clients, reading, puts, status, since, last, written >>

\* a getHash stream: the file, the digest it will deliver, whether its event came
\* before the watcher's "ready", and whether it came while an earlier stream of
\* the same file was open
Jobs == [path : Paths, hash : Hashes, pre : BOOLEAN, after : BOOLEAN]

\* a Client: its state, the counter `attempts` of its closure, the "error" events
\* it has had since it was made or last ready, and the conn.sftp() requests
\* outstanding on it (req: to be answered, doomed: to fail)
NoClient == [st |-> "none", attempts |-> 0, errors |-> 0, req |-> 0, doomed |-> 0]

Min(a, b) == IF a < b THEN a ELSE b
Max(a, b) == IF a > b THEN a ELSE b

\* ------------------------------------------------- the object `updates`
ObjKeys(o) == { o[i][1] : i \in 1..Len(o) }

\* o[k] = v on a JavaScript object: an own key keeps its place, a new one is appended
ObjSet(o, k, v) ==
    IF k \in ObjKeys(o)
    THEN [i \in 1..Len(o) |-> IF o[i][1] = k THEN <<k, v>> ELSE o[i]]
    ELSE Append(o, <<k, v>>)

\* ------------------------------------------------------------ timers
TimerActive(tt, h) == h \in TimerIds /\ tt[h] >= 0

\* ClearTimeout with the clearTimeout call left out
ClearTimeoutForgotten(tt, h) == tt

\* if (timeout) { clearTimeout(timeout); }
ClearTimeout(tt, h) == IF TimerActive(tt, h) THEN [tt EXCEPT ![h] = -1] ELSE tt

FreeTimers(tt) == { id \in TimerIds : tt[id] < 0 }

\* the handle setTimeout returns
NewTimer(tt) == CHOOSE id \in FreeTimers(tt) : \A o \in FreeTimers(tt) : id <= o

\* ------------------------------------------------------------ ledger
\* IsChange without the comparison of the stored hash
IsChangeMissingOnly(hs, rel, hash) == hs[rel] = 0

\* !hashes[relativePath] || (hashes[relativePath] !== hash)
IsChange(hs, rel, hash) == hs[rel] = 0 \/ hs[rel] # hash

Init ==
    /\ hashes        = [r \in RelPaths |-> 0]
    /\ updates       = << >>
    /\ timeout       = 0
    /\ timers        = [id \in TimerIds |-> -1]
    /\ sftp_ready    = FALSE
    /\ watcher_ready = FALSE
    /\ conn          = 0
    /\ clients       = [c \in ClientIds |-> NoClient]
    /\ reading       = [j \in Jobs |-> 0]
    /\ puts          = [x \in Transfers |-> 0]
    /\ status        = "running"
    /\ since         = [p \in Paths |-> Window]
    /\ last          = "init"
    /\ written       = ""

\* the process is gone (uncaught exception, process.exit()) and its heap with it
HeapDropped ==
    /\ hashes'  = [r \in RelPaths |-> 0]
    /\ updates' = << >>
    /\ timeout' = 0
    /\ timers'  = [id \in TimerIds |-> -1]
    /\ reading' = [j \in Jobs |-> 0]
    /\ puts'    = [x \in Transfers |-> 0]
    /\ since'   = [p \in Paths |-> Window]

RECURSIVE SumOver(_, _)
SumOver(f, S) == IF S = {} THEN 0
                 ELSE LET x == CHOOSE y \in S : TRUE IN f[x] + SumOver(f, S \ {x})

\* ---------------------------------------------------------- the watcher
\* watcher.on("ready")
WatcherReady ==
    /\ status = "running"
    /\ written' = ""
    /\ ~watcher_ready
    /\ watcher_ready' = TRUE
    /\ last' = "-"
    /\ UNCHANGED << hashes, updates, timeout, timers, sftp_ready, conn, clients,
                    reading, puts, status, since >>

\* Interested with every event kind let through
InterestedInAll(e) == TRUE

\* ["add", "change"].includes(event)
Interested(e) == e \in {"add", "change"}

\* watcher.on("all"): add and change open a read stream (getHash), the rest is
\* ignored.  At most n streams are open at the same time.
FsEventUpTo(e, p, h, n) ==
    /\ status = "running"
    /\ written' = ""
    /\ IF Interested(e)
       THEN /\ SumOver(reading, Jobs) < n
            /\ LET j == [path |-> p, hash |-> h, pre |-> ~watcher_ready,
                         after |-> \E k \in Jobs : k.path = p /\ reading[k] > 0]
               IN reading' = [reading EXCEPT ![j] = @ + 1]
       ELSE reading' = reading
    /\ last' = IF e = "unlink" THEN "unlink" ELSE "-"
    /\ UNCHANGED << hashes, updates, timeout, timers, sftp_ready, watcher_ready,
                    conn, clients, puts, status, since >>

FsEvent(e, p, h) == FsEventUpTo(e, p, h, MaxReading)

\* the stream's "end": the callback given to getHash
HashDone(j) ==
    /\ status = "running"
    /\ written' = ""
    /\ reading[j] > 0
    /\ reading' = [reading EXCEPT ![j] = @ - 1]
    /\ LET relativePath == getRelativePath(localPath, j.path) IN
       IF IsChange(hashes, relativePath, j.hash)
       THEN /\ hashes' = [hashes EXCEPT ![relativePath] = j.hash]
            /\ IF watcher_ready
               THEN LET cleared == ClearTimeout(timers, timeout) IN
                    /\ FreeTimers(cleared) # {}
                    /\ updates' = ObjSet(updates, j.path, relativePath)
                    /\ timeout' = NewTimer(cleared)
                    /\ timers'  = [cleared EXCEPT ![NewTimer(cleared)] = Window]
                    /\ since'   = [since EXCEPT ![j.path] = 0]
                    /\ last' = IF TimerActive(timers, timeout) THEN "requeued" ELSE "queued"
               ELSE /\ last' = "baseline"
                    /\ UNCHANGED << updates, timeout, timers, since >>
       ELSE /\ last' = "nochange"
            /\ UNCHANGED << hashes, updates, timeout, timers, since >>
    /\ UNCHANGED << sftp_ready, watcher_ready, conn, clients, puts, status >>

\* the stream's "error", which getHash does not listen to: the emitter throws
ReadError(j) ==
    /\ status = "running"
    /\ written' = ""
    /\ reading[j] > 0
    /\ status' = "crashed"
    /\ last' = "readError"
    /\ HeapDropped
    /\ UNCHANGED << sftp_ready, watcher_ready, conn, clients >>

\* the clock: Quantum milliseconds pass
Tick ==
    /\ status = "running"
    /\ written' = ""
    /\ timers' = [id \in TimerIds |->
                      IF timers[id] > 0 THEN Max(0, timers[id] - Quantum) ELSE timers[id]]
    /\ since'  = [p \in Paths |-> Min(Window, since[p] + Quantum)]
    /\ last' = "-"
    /\ UNCHANGED << hashes, updates, timeout, sftp_ready, watcher_ready, conn,
                    clients, reading, puts, status >>

\* ------------------------------------------------------ the debounce timer
FreeClients == { c \in ClientIds : clients[c].st = "none" }

\* connectToSFTPServer(): new Client(), attempts = 0, conn.connect(connSettings)
connectToSFTPServer(cs, c) ==
    [cs EXCEPT ![c] = [st |-> "connecting", attempts |-> 0, errors |-> 0, req |-> 0,
                       doomed |-> 0]]

\* the setTimeout callback: conn = connectToSFTPServer(); conn.on("ready", ...)
TimerExpiry(id) ==
    /\ status = "running"
    /\ written' = ""
    /\ timers[id] = 0
    /\ FreeClients # {}
    /\ LET c == CHOOSE x \in FreeClients : \A o \in FreeClients : x <= o IN
       /\ clients' = connectToSFTPServer(clients, c)
       /\ conn' = c
    /\ timers' = [timers EXCEPT ![id] = -1]
    /\ last' = "-"
    /\ UNCHANGED << hashes, updates, timeout, sftp_ready, watcher_ready, reading,
                    puts, status, since >>

\* ---------------------------------------------------------- the connection
\* OnReady with the counter left as it is
OnReadyKeepsAttempts(cs, c) == [cs EXCEPT ![c].st = "ready"]

\* the first "ready" listener of a Client: sftp_ready = true; attempts = 0
OnReady(cs, c) == [cs EXCEPT ![c].st = "ready", ![c].attempts = 0]

\* "ready" on Client c.  The second listener calls conn.sftp() on the module-level
\* conn, the Client of the latest expiry.  On a Client that is ready the session
\* is requested; on one that is not, ssh2 either throws "Not connected"
\* (ConnReadyThrow) or the request is left to fail.
ConnReady(c) ==
    /\ status = "running"
    /\ written' = ""
    /\ clients[c].st = "connecting"
    /\ LET cs == [OnReady(clients, c) EXCEPT ![c].errors = 0] IN
       /\ cs[conn].req + cs[conn].doomed < MaxRequests
       /\ clients' = IF cs[conn].st = "ready"
                     THEN [cs EXCEPT ![conn].req = @ + 1]
                     ELSE [cs EXCEPT ![conn].doomed = @ + 1]
    /\ sftp_ready' = TRUE
    /\ last' = "-"
    /\ UNCHANGED << hashes, updates, timeout, timers, watcher_ready, conn, reading,
                    puts, status, since >>

ConnReadyThrow(c) ==
    /\ status = "running"
    /\ written' = ""
    /\ clients[c].st = "connecting"
    /\ clients' = [OnReady(clients, c) EXCEPT ![c].errors = 0]
    /\ clients'[conn].st # "ready"
    /\ sftp_ready' = TRUE
    /\ status' = "crashed"
    /\ last' = "notConnected"
    /\ HeapDropped
    /\ UNCHANGED << watcher_ready, conn >>

\* the characters of the "Retrying" line
spinner == << "|", "/", "-", "\\" >>

\* spinner[attempts++ % 4]: the character written for a counter value
Shown(attempts) == spinner[(attempts % 4) + 1]

\* "error" on Client c: sftp_ready = false; the spinner is written; attempts++;
\* conn.connect(connSettings).  The session requests outstanding on c die with
\* its socket.  The counter is followed up to n.
ConnErrorUpTo(c, n) ==
    /\ status = "running"
    /\ clients[c].st \in {"connecting", "ready"}
    /\ clients[c].attempts < n
    /\ written' = Shown(clients[c].attempts)
    /\ clients' = [clients EXCEPT ![c].st = "connecting",
                                  ![c].attempts = @ + 1,
                                  ![c].errors = @ + 1,
                                  ![c].req = 0,
                                  ![c].doomed = clients[c].doomed + clients[c].req]
    /\ sftp_ready' = FALSE
    /\ last' = IF clients[c].st = "ready" THEN "readyLost" ELSE "-"
    /\ UNCHANGED << hashes, updates, timeout, timers, watcher_ready, conn, reading,
                    puts, status, since >>

ConnError(c) == ConnErrorUpTo(c, MaxAttempts)

\* the channel of Client c goes away with no "error": ssh2 emits "end"/"close",
\* which have no listener.  Nothing is written, nothing reconnects; the session
\* requests outstanding on c die with its socket.
ConnClose(c) ==
    /\ status = "running"
    /\ written' = ""
    /\ clients[c].st = "ready"
    /\ clients' = [clients EXCEPT ![c].st = "closed",
                                  ![c].req = 0,
                                  ![c].doomed = clients[c].doomed + clients[c].req]
    /\ last' = "-"
    /\ UNCHANGED << hashes, updates, timeout, timers, sftp_ready, watcher_ready, conn,
                    reading, puts, status, since >>

\* ------------------------------------------------------------ the upload
\* for (let path in updates) sftp.fastPut(path, remotePath + updates[path], ...)
IssuePuts(ps, o) ==
    [x \in Transfers |->
        ps[x] + Cardinality({ i \in 1..Len(o) : x = <<o[i][1], RemoteTarget(o[i][2])>> })]

\* Drained with the batch left as it was
DrainedKept(o) == o

\* updates = {} after the loop
Drained(o) == << >>

\* the conn.sftp callback with a session: every path of updates is put, updates = {}
SftpOpened(t) ==
    /\ status = "running"
    /\ written' = ""
    /\ clients[t].req > 0
    /\ clients[t].st = "ready"
    /\ \A x \in Transfers : IssuePuts(puts, updates)[x] <= MaxPuts
    /\ clients' = [clients EXCEPT ![t].req = @ - 1]
    /\ puts' = IssuePuts(puts, updates)
    /\ updates' = Drained(updates)
    /\ last' = "sftpOpened"
    /\ UNCHANGED << hashes, timeout, timers, sftp_ready, watcher_ready, conn, reading,
                    status, since >>

\* the conn.sftp callback with err: err is logged and the loop runs with sftp
\* undefined, so the first sftp.fastPut throws a TypeError; with nothing in updates
\* the loop body never runs and updates = {} is reached
SftpFailed(t, k) ==
    /\ status = "running"
    /\ written' = ""
    /\ clients[t][k] > 0
    /\ clients' = [clients EXCEPT ![t][k] = @ - 1]
    /\ IF updates = << >>
       THEN /\ last' = "-"
            /\ UNCHANGED << hashes, updates, timeout, timers, reading, puts, since,
                            status >>
       ELSE /\ last' = "sftpUndefined"
            /\ status' = "crashed"
            /\ HeapDropped
    /\ UNCHANGED << sftp_ready, watcher_ready, conn >>

\* AfterPut with the err thrown instead of logged
AfterPutThrows(err) == IF err THEN "crashed" ELSE "running"

\* what the fastPut callback does to the process: an err is only logged
AfterPut(err) == "running"

\* UpdatesAfterPut with the path of a failed fastPut put back into the batch
UpdatesAfterPutRequeue(o, x, err) ==
    IF err THEN ObjSet(o, x[1], getRelativePath(localPath, x[1])) ELSE o

\* what the fastPut callback does to `updates`: nothing, with or without err
UpdatesAfterPut(o, x, err) == o

\* the fastPut callback
PutDone(x, err) ==
    /\ status = "running"
    /\ written' = ""
    /\ puts[x] > 0
    /\ puts' = [puts EXCEPT ![x] = @ - 1]
    /\ status' = AfterPut(err)
    /\ updates' = UpdatesAfterPut(updates, x, err)
    /\ last' = IF err THEN "putFailed" ELSE "-"
    /\ UNCHANGED << hashes, timeout, timers, sftp_ready, watcher_ready, conn,
                    clients, reading, since >>

\* ------------------------------------------------------------- shutdown
\* process.on("SIGINT"): conn.end() if sftp_ready, watcher.close(), process.exit()
Sigint ==
    /\ status = "running"
    /\ written' = ""
    /\ clients' = IF sftp_ready THEN [clients EXCEPT ![conn].st = "ended"] ELSE clients
    /\ status' = "exited"
    /\ last' = "sigint"
    /\ HeapDropped
    /\ UNCHANGED << sftp_ready, watcher_ready, conn >>

\* The events that are ignored change nothing but the note in `last`; they are
\* followed where one file is followed in depth (RetrySpec, BurstSpec).
Next ==
    \/ WatcherReady
    \/ \E e \in { k \in Events : Interested(k) }, p \in Paths, h \in Hashes :
          FsEvent(e, p, h)
    \/ \E j \in Jobs : HashDone(j)
    \/ \E j \in Jobs : ReadError(j)
    \/ Tick
    \/ \E id \in TimerIds : TimerExpiry(id)
    \/ \E c \in ClientIds : ConnReady(c)
    \/ \E c \in ClientIds : ConnReadyThrow(c)
    \/ \E c \in ClientIds : ConnError(c)
    \/ \E c \in ClientIds : ConnClose(c)
    \/ \E t \in ClientIds : SftpOpened(t)
    \/ \E t \in ClientIds, k \in {"req", "doomed"} : SftpFailed(t, k)
    \/ \E x \in Transfers, err \in BOOLEAN : PutDone(x, err)
    \/ Sigint

Spec == Init /\ [][Next]_vars

\* What the scheduling guarantees: the clock goes on, a due timer fires, a callback
\* that is ready to run runs, and the remote accepts a connection that keeps being
\* asked for.  Nothing is promised about what the environment may do or not do:
\* file events, errors, failures, the interrupt.
Fairness ==
    /\ WF_vars(Tick)
    /\ \A id \in TimerIds : WF_vars(TimerExpiry(id))
    /\ \A j \in Jobs : WF_vars(HashDone(j))
    /\ \A c \in ClientIds : WF_vars(ConnReady(c))
    /\ \A t \in ClientIds : WF_vars(SftpOpened(t))
    /\ \A x \in Transfers : WF_vars(PutDone(x, FALSE))

FairSpec == Spec /\ Fairness

\* The retries in depth: only OneFile is touched, and the counter of each Client
\* is followed up to MaxRetries.
RetryNext ==
    \/ WatcherReady
    \/ \E e \in Events, h \in Hashes : FsEvent(e, OneFile, h)
    \/ \E j \in Jobs : HashDone(j)
    \/ \E j \in Jobs : ReadError(j)
    \/ Tick
    \/ \E id \in TimerIds : TimerExpiry(id)
    \/ \E c \in ClientIds : ConnReady(c)
    \/ \E c \in ClientIds : ConnReadyThrow(c)
    \/ \E c \in ClientIds : ConnErrorUpTo(c, MaxRetries)
    \/ \E c \in ClientIds : ConnClose(c)
    \/ \E t \in ClientIds : SftpOpened(t)
    \/ \E t \in ClientIds, k \in {"req", "doomed"} : SftpFailed(t, k)
    \/ \E x \in Transfers, err \in BOOLEAN : PutDone(x, err)
    \/ Sigint

RetrySpec == Init /\ [][RetryNext]_vars

\* The reads in depth: only OneFile is touched, with up to MaxBurst streams open
\* at the same time.
BurstNext ==
    \/ WatcherReady
    \/ \E e \in Events, h \in Hashes : FsEventUpTo(e, OneFile, h, MaxBurst)
    \/ \E j \in Jobs : HashDone(j)
    \/ \E j \in Jobs : ReadError(j)
    \/ Tick
    \/ \E id \in TimerIds : TimerExpiry(id)
    \/ \E c \in ClientIds : ConnReady(c)
    \/ \E c \in ClientIds : ConnReadyThrow(c)
    \/ \E c \in ClientIds : ConnError(c)
    \/ \E c \in ClientIds : ConnClose(c)
    \/ \E t \in ClientIds : SftpOpened(t)
    \/ \E t \in ClientIds, k \in {"req", "doomed"} : SftpFailed(t, k)
    \/ \E x \in Transfers, err \in BOOLEAN : PutDone(x, err)
    \/ Sigint

BurstSpec == Init /\ [][BurstNext]_vars

\* ------------------------------------------------------------ properties
\* steps, told by what they change
HashResult(j) == reading'[j] < reading[j] /\ status' = "running"
PutIssued(x)  == puts'[x] > puts[x]
Expired(id)   == timers[id] = 0 /\ timers'[id] < 0 /\ status' = "running"

\* C1: the hash result of an add/change delivered before the watcher's "ready"
\* updates the ledger and leaves the batch and the timer alone, whenever it arrives.
C1_ReadinessGating ==
    [][\A j \in Jobs : (j.pre /\ HashResult(j)) =>
          /\ hashes'[getRelativePath(localPath, j.path)] = j.hash
          /\ updates' = updates
          /\ timers' = timers
          /\ timeout' = timeout]_vars

\* C2: a hash result is a change iff the ledger has no entry for the path or a
\* different one, and then the entry becomes the new hash; otherwise the ledger,
\* the batch and the timer stay as they are.
C2_LedgerCheck ==
    [][\A j \in Jobs : HashResult(j) =>
          LET rel == getRelativePath(localPath, j.path) IN
          IF hashes[rel] = 0 \/ hashes[rel] # j.hash
          THEN /\ hashes' = [hashes EXCEPT ![rel] = j.hash]
               /\ last' \in {"baseline", "queued", "requeued"}
          ELSE /\ last' = "nochange"
               /\ UNCHANGED << hashes, updates, timers, timeout >>]_vars

\* a second notification with the content the ledger already holds was processed
\* after readiness, with the path's first change still in the batch
C2_Witness ==
    /\ last = "nochange"
    /\ watcher_ready
    /\ updates # << >>
    /\ \E id \in TimerIds : TimerActive(timers, id)

\* C3: every batched change arms the timer with the full window, and an armed
\* timer never has less time left than the window lacks since the latest batched
\* change: it is due no earlier than one window after that change.
C3_DebounceReset ==
    /\ last \in {"queued", "requeued"} => timers[timeout] = Window
    /\ \A id \in TimerIds : TimerActive(timers, id) =>
          \A p \in Paths : timers[id] + since[p] >= Window

\* a change at T and one later inside the window: the timer armed at T was
\* cancelled and the new one has the full window left
C3_Witness ==
    /\ last = "requeued"
    /\ timers[timeout] = Window
    /\ \E p \in Paths : since[p] > 0 /\ since[p] < Window
    /\ \A id \in TimerIds \ {timeout} : ~TimerActive(timers, id)

\* C4: the changes of a path inside one window are sent once, by the one drain
\* that follows the burst: a fastPut of a path is issued only when a full window
\* has passed since the latest batched change of that path (a fastPut issued
\* earlier splits the burst over two drains).
C4_Coalescing ==
    [][\A x \in Transfers : PutIssued(x) => since[x[1]] = Window]_vars

\* C5: the expiry of the timer swaps the pending batch for a fresh empty one.
C5_SwapAtExpiry ==
    [][\A id \in TimerIds : Expired(id) => updates' = << >>]_vars

\* a drain has been started on Client c and is not over: the connection is asked
\* for, or the sftp session is
DrainInFlight(c) ==
    \/ clients[c].st = "connecting"
    \/ clients[c].req + clients[c].doomed > 0

\* C6: at most one drain is in flight at any time.
C6_OneDrain == Cardinality({ c \in ClientIds : DrainInFlight(c) }) <= 1

\* C7: a drain issues one fastPut per path of the batch, to remotePath + the
\* relative path, and empties the batch; a fastPut that fails takes nothing else
\* with it: the other transfers stay in flight and the process keeps running.
C7_PartialFailure ==
    [][/\ last' = "sftpOpened" =>
            /\ \A p \in ObjKeys(updates) :
                  PutIssued(<<p, remotePath \o getRelativePath(localPath, p)>>)
            /\ updates' = << >>
            /\ status' = "running"
       /\ last' = "putFailed" =>
            /\ status' = "running"
            /\ \E x \in Transfers :
                  /\ puts'[x] = puts[x] - 1
                  /\ \A y \in Transfers \ {x} : puts'[y] = puts[y]
            /\ UNCHANGED << updates, clients, hashes, timers >>]_vars

\* one fastPut of a drained batch has failed and another one is still in flight
C7_Witness ==
    /\ last = "putFailed"
    /\ status = "running"
    /\ updates = << >>
    /\ \E x \in Transfers : puts[x] > 0

\* C8: after an error on a connection that was Ready the connection becomes
\* Ready again (the interrupt and a failed file read set aside).
C8_ReadyAgain ==
    (last = "readyLost") ~> (sftp_ready \/ status = "exited" \/ last = "readError")

\* C9: a path leaves the pending batch only in a step that issues its fastPut
\* (the interrupt and a failed file read set aside).
C9_NoPathDropped ==
    [][(status' # "exited" /\ last' # "readError") =>
          \A p \in ObjKeys(updates) \ ObjKeys(updates') :
             \E x \in Transfers : x[1] = p /\ PutIssued(x)]_vars

\* C10: no failure of the transfer channel ends the process with an uncaught
\* exception.
C10_NoCrash == ~(status = "crashed" /\ last \in {"sftpUndefined", "notConnected"})

\* a Client that holds or asks for a connection
Live(c) == clients[c].st \in {"connecting", "ready"}

\* C11: a read that fails is an outcome of that one file: the process keeps
\* running, and the ledger, the batch and the timer stay as they are.
C11_ReadFailureContained ==
    [][last' = "readError" =>
          /\ status' = "running"
          /\ UNCHANGED << hashes, updates, timers, timeout >>]_vars

\* C12: the hash results of one path are applied in the order of its events: the
\* result of an event is not applied while the stream of an earlier event of the
\* same path is still open.
C12_EventOrder ==
    [][\A j \in Jobs : (HashResult(j) /\ j.after) =>
          ~ \E k \in Jobs : k.path = j.path /\ ~k.after /\ reading[k] > 0]_vars

\* C13: a Client that stops being ready, by an error or by its channel going
\* away, is connecting again at once and the flag sftp_ready is reset.
C13_DisconnectReconnects ==
    [][\A c \in ClientIds :
          (clients[c].st = "ready" /\ clients'[c].st # "ready" /\ status' = "running") =>
             /\ clients'[c].st = "connecting"
             /\ ~sftp_ready']_vars

\* C14: at most one Client is connecting or ready at any time.
C14_SingleConnection ==
    status = "running" => Cardinality({ c \in ClientIds : Live(c) }) <= 1

\* C15: the drain registered at an expiry runs once: when the Client of that
\* expiry, the only one there is, has lost its readiness by an error and is ready
\* again, no sftp session is asked for.
C15_OnePassPerExpiry ==
    [][\A c \in ClientIds :
          (/\ last = "readyLost"
           /\ \A o \in ClientIds \ {c} : clients[o].st = "none"
           /\ clients[c].st = "connecting"
           /\ clients'[c].st = "ready") =>
             /\ status' = "running"
             /\ \A t \in ClientIds : /\ clients'[t].req = clients[t].req
                                     /\ clients'[t].doomed = clients[t].doomed]_vars

\* C16: a fastPut that fails puts nothing back: the batch is as the drain left
\* it, a path enters the batch only with a hash result that differs from its
\* ledger entry, and the ledger holds an entry for every path with a fastPut
\* outstanding.
C16_NoRequeue ==
    [][/\ last' = "putFailed" => updates' = updates
       /\ \A p \in ObjKeys(updates') \ ObjKeys(updates) :
             \E j \in Jobs :
                /\ j.path = p
                /\ HashResult(j)
                /\ hashes[getRelativePath(localPath, p)] # j.hash
                /\ hashes'[getRelativePath(localPath, p)] = j.hash
       /\ \A x \in Transfers :
             puts[x] > 0 => hashes[getRelativePath(localPath, x[1])] # 0]_vars

\* the only fastPut of a batch has failed: its path is in no batch, no timer is
\* armed and no drain is in flight, while the ledger holds the path's hash
C16_Witness ==
    /\ last = "putFailed"
    /\ updates = << >>
    /\ \A x \in Transfers : puts[x] = 0
    /\ \A id \in TimerIds : ~TimerActive(timers, id)
    /\ \A c \in ClientIds : ~DrainInFlight(c)
    /\ \E r \in RelPaths : hashes[r] # 0

\* C17: the counter of a Client is the number of errors it has had since it was
\* made or last ready, so it is 0 on a ready Client; an error adds exactly one
\* to it, writes the spinner character at index (counter before) mod 4 and
\* leaves the Client connecting again, whatever the counter.
C17_RetryCounter ==
    [][\A c \in ClientIds :
          /\ clients'[c].attempts = clients'[c].errors
          /\ clients'[c].st = "ready" => clients'[c].attempts = 0
          /\ clients'[c].errors = clients[c].errors + 1 =>
                /\ clients'[c].attempts = clients[c].attempts + 1
                /\ written' = spinner[(clients[c].attempts % 4) + 1]
                /\ clients'[c].st = "connecting"]_vars

\* the fifth error in a row on a Client: the spinner is back at its first
\* character
C17_Witness ==
    /\ \E c \in ClientIds : /\ clients[c].attempts = Len(spinner) + 1
                           /\ clients[c].st = "connecting"
    /\ written = spinner[1]

\* C18: the interrupt closes every Client that is connecting or ready before the
\* process exits.
C18_ShutdownClosesAll ==
    [][status' = "exited" =>
          \A c \in ClientIds : Live(c) => clients'[c].st = "ended"]_vars

\* C19: a delete event changes nothing: not the ledger, the batch, the timer,
\* the connections or the reads in progress; and the ledger never loses an entry
\* while the process runs, so the content it holds for a deleted path is still
\* no change when the path comes back with it.
C19_DeleteIgnored ==
    [][/\ last' = "unlink" =>
            UNCHANGED << hashes, updates, timeout, timers, sftp_ready, conn, clients,
                         reading, puts, status >>
       /\ \A r \in RelPaths :
             (hashes[r] # 0 /\ status' = "running") => hashes'[r] = hashes[r] \/
                \E j \in Jobs : HashResult(j) /\ hashes'[r] = j.hash]_vars

\* a delete event was delivered while the ledger had an entry, a batch was
\* pending, a timer was armed and a Client was connecting or ready
C19_Witness ==
    /\ last = "unlink"
    /\ \E r \in RelPaths : hashes[r] # 0
    /\ updates # << >>
    /\ \E id \in TimerIds : TimerActive(timers, id)
    /\ \E c \in ClientIds : Live(c)

\* C20: at most one timer is armed at any time, and the batch holds a path only
\* while a timer is armed or a drain has been started and is not over.
C20_OneTimer ==
    /\ Cardinality({ id \in TimerIds : TimerActive(timers, id) }) <= 1
    /\ updates # << >> =>
          \/ \E id \in TimerIds : TimerActive(timers, id)
          \/ \E c \in ClientIds : DrainInFlight(c)

\* a second path joined the batch inside the window: the first timer was
\* cancelled, one timer is armed for both paths
C20_Witness ==
    /\ Len(updates) = 2
    /\ Cardinality({ id \in TimerIds : TimerActive(timers, id) }) = 1
    /\ \E p \in Paths : since[p] = 0
    /\ \E p \in Paths : since[p] > 0 /\ since[p] < Window

====
